---- MODULE Spec2Model ----
(***************************************************************************)
(* A model of the FrankerFaceZ settings manager (SettingsManager): the     *)
(* registry of setting definitions, the profile list with its id map, the  *)
(* storage provider's mirror and its change notifications, and the full    *)
(* backup.  Each action is one method of the manager, run to completion    *)
(* (the manager runs on a single event loop); the only suspension points   *)
(* are the awaits of awaitReady().                                         *)
(***************************************************************************)
EXTENDS Integers, Sequences, FiniteSets, TLC

VARIABLES
    definitions,    \* this.definitions: key -> undefined | array | definition
    subs,           \* the manager's listeners for ':changed:<key>', per key
    adds,           \* number of add() calls made so far (bounded)
    ui_structures,  \* this.ui_structures: key -> undefined | definition
    profiles,       \* this.__profiles: the list of SettingsProfile instances
    profile_ids,    \* this.__profile_ids: id -> instance | null
    listeners,      \* per id, the __listeners of the live instance of that id
    retired,        \* per id, the instance the last call replaced, if any
    provider,       \* the provider's in-memory mirror: key -> value
    ready,          \* whether the provider has finished its initial load
    enabled,        \* whether onEnable has run past its await
    inflight,       \* provider notifications that arrived and are not yet handled
    arrived,        \* number of notifications that have arrived
    handled,        \* the notifications handled, in order: arrival number and key
    backup,         \* getFullBackup(): its position and its result
    timer,          \* this._update_timer and the timeouts that are pending
    switchboard,    \* the Switchboard module, web_munch and its retry timer
    call,           \* the last call: the method's name
    result,         \* how the last call ended: "return" | "throw"
    out             \* what the last call did, in order: events, selects, writes

vars == <<definitions, subs, adds, ui_structures, profiles, profile_ids, listeners, retired,
          provider, ready, enabled, inflight, arrived, handled, backup,
          timer, switchboard, call, result, out>>

registryVars == <<definitions, subs, adds, ui_structures>>
profileVars == <<profiles, profile_ids, listeners, retired>>
providerVars == <<provider, ready>>
queueVars == <<inflight, arrived, handled>>

----------------------------------------------------------------------------
(* Bounds of the model. *)

MaxAdds == 3        \* add() calls in one behaviour
MaxProfiles == 3    \* profiles in a list
MaxInflight == 2    \* notifications waiting to be handled
MaxArrived == 2     \* notifications arriving in one behaviour
MaxRetries == 2     \* runs of Switchboard.onEnable that find no Switch
NumContexts == 2    \* contexts registered with the manager (this.__contexts)

----------------------------------------------------------------------------
(* Sequence helpers. *)

Range(s) == {s[i] : i \in 1..Len(s)}

\* Array.prototype.indexOf, 0-based, -1 when absent.
IndexOf(s, x) ==
    IF \E i \in 1..Len(s) : s[i] = x
    THEN (CHOOSE i \in 1..Len(s) : s[i] = x /\ \A j \in 1..(i - 1) : s[j] # x) - 1
    ELSE -1

\* (mutant) nothing is removed
RemoveNone(s, i) == s

\* s without its element at 0-based index i (splice(i, 1)).
RemoveAt(s, i) == [j \in 1..(Len(s) - 1) |-> IF j <= i THEN s[j] ELSE s[j + 1]]

\* s with x inserted at 0-based index i (splice(i, 0, x)): a start past the
\* end is clamped to the length.
InsertAt(s, i, x) ==
    LET at == IF i > Len(s) THEN Len(s) ELSE i
    IN  [j \in 1..(Len(s) + 1) |->
            IF j <= at THEN s[j] ELSE IF j = at + 1 THEN x ELSE s[j - 1]]

\* All sequences over S of length at most n.
SeqsUpTo(S, n) == UNION {[1..k -> S] : k \in 0..n}

----------------------------------------------------------------------------
(* What a call leaves in `out`: one record per emitted event, per          *)
(* constructed SettingsProfile, per selectProfiles() call and per provider *)
(* write, in the order they happen.                                        *)

NoKey == <<>>

Ev(event, on) ==
    [ev |-> event, id |-> on, key |-> NoKey, val |-> 0, del |-> FALSE, dkey |-> ""]

EvDef(event, dkey) ==
    [ev |-> event, id |-> -1, key |-> NoKey, val |-> 0, del |-> FALSE, dkey |-> dkey]

\* profile.emit('changed', key, value, deleted) on the instance of `id`
EvChanged(id, key, val, del) ==
    [ev |-> "changed", id |-> id, key |-> key, val |-> val, del |-> del, dkey |-> ""]

Count(s, event) == Cardinality({i \in 1..Len(s) : s[i].ev = event})
CountFor(s, event, id) ==
    Cardinality({i \in 1..Len(s) : s[i].ev = event /\ s[i].id = id})

----------------------------------------------------------------------------
(* Profile ids, and what a call that leaves the profiles alone does.       *)

Ids == 0..(MaxProfiles - 1)

NotRetired == [listeners |-> {}, replaced |-> FALSE]
NoneRetired == [i \in Ids |-> NotRetired]

\* A call that replaces no instance and leaves the list alone.
ProfilesKept ==
    /\ retired' = NoneRetired
    /\ UNCHANGED <<profiles, profile_ids, listeners>>

----------------------------------------------------------------------------
(* The registry of definitions. *)

DefKeys == {"a", "b"}

\* An entry of this.definitions: nothing, a placeholder array of the keys
\* that require this one, or a definition.  `ui` names the definition's ui
\* object (its path, title and the tokens made of them), 0 for none.
Undefined ==
    [kind |-> "undefined", requires |-> <<>>, required_by |-> <<>>,
     dflt |-> 0, changed |-> FALSE, ui |-> 0]

Placeholder(keys) ==
    [kind |-> "array", requires |-> <<>>, required_by |-> keys,
     dflt |-> 0, changed |-> FALSE, ui |-> 0]

\* The definitions a caller passes to add(): requires may be missing, and a
\* definition may come with a `changed` callback.
DefInputs ==
    {[requires |-> r, dflt |-> x, changed |-> (x = 2), ui |-> 0,
      has_requires |-> TRUE] : r \in SeqsUpTo(DefKeys, 2), x \in {1, 2}}
    \cup {[requires |-> <<>>, dflt |-> 1, changed |-> FALSE, ui |-> 0,
           has_requires |-> FALSE]}

\* definition.requires = definition.requires || []
NormRequires(d) == IF d.has_requires THEN d.requires ELSE <<>>

\* The loop over definition.requires: each required key gets `key` appended
\* to its required_by, in a placeholder array when it has no entry yet.
RECURSIVE AddRequires(_, _, _)
AddRequires(m, key, reqs) ==
    IF reqs = <<>> THEN m
    ELSE LET req_key == Head(reqs)
             req == m[req_key]
             m2 == IF req.kind = "undefined"
                   THEN [m EXCEPT ![req_key] = Placeholder(<<key>>)]
                   ELSE [m EXCEPT ![req_key].required_by = Append(@, key)]
         IN  AddRequires(m2, key, Tail(reqs))

\* The required_by the new definition ends with.  It is the old entry's
\* array itself, so what the loop pushes onto that array shows in the new
\* definition; with no old entry it is a fresh array, which the loop never
\* sees.
CarriedRequiredBy(old, looped, key) ==
    IF old.kind = "undefined" THEN <<>> ELSE looped[key].required_by

\* add(key, definition) for a single key: the registry afterwards.
AddOne(m, key, d) ==
    LET old == m[key]
        looped == AddRequires(m, key, NormRequires(d))
    IN  [looped EXCEPT ![key] =
            [kind |-> "definition", requires |-> NormRequires(d),
             required_by |-> CarriedRequiredBy(old, looped, key),
             dflt |-> d.dflt, changed |-> d.changed, ui |-> d.ui]]

\* if ( definition.changed ) this.on(`:changed:${key}`, definition.changed)
SubscribeChanged(s, key, d) ==
    IF d.changed THEN [s EXCEPT ![key] = @ + 1] ELSE s

add(key, d) ==
    /\ call' = "add"
    /\ adds < MaxAdds
    /\ definitions' = AddOne(definitions, key, d)
    /\ subs' = SubscribeChanged(subs, key, d)
    /\ adds' = adds + 1
    /\ out' = <<EvDef(":added-definition", key)>>
    /\ result' = "return"
    /\ ProfilesKept
    /\ UNCHANGED <<switchboard, ui_structures, providerVars, queueVars, enabled, backup, timer>>

\* The objects a caller passes for one key: a key and what is given for it.
Pair(key, d) == [k |-> key, d |-> d]

\* for(const k in key) if ( has(key, k) ) this.add(k, key[k]);
RECURSIVE AddEach(_, _)
AddEach(m, mapping) ==
    IF mapping = <<>> THEN m
    ELSE AddEach(AddOne(m, Head(mapping).k, Head(mapping).d), Tail(mapping))

RECURSIVE SubscribeEach(_, _)
SubscribeEach(s, mapping) ==
    IF mapping = <<>> THEN s
    ELSE SubscribeEach(SubscribeChanged(s, Head(mapping).k, Head(mapping).d),
                       Tail(mapping))

AddedEach(mapping) ==
    [i \in 1..Len(mapping) |-> EvDef(":added-definition", mapping[i].k)]

\* add(key) with an object for `key`: its own keys, in their order.
addAll(mapping) ==
    /\ call' = "add"
    /\ adds + Len(mapping) <= MaxAdds
    /\ definitions' = AddEach(definitions, mapping)
    /\ subs' = SubscribeEach(subs, mapping)
    /\ adds' = adds + Len(mapping)
    /\ out' = AddedEach(mapping)
    /\ result' = "return"
    /\ ProfilesKept
    /\ UNCHANGED <<switchboard, ui_structures, providerVars, queueVars, enabled, backup, timer>>

\* What a caller passes to addUI(): a definition {ui: ...}, or the ui object
\* itself.
UIInputs == {[ui |-> n, wrapped |-> w] : n \in {1, 2}, w \in BOOLEAN}

\* if ( ! definition.ui ) definition = {ui: definition};
\* this.ui_structures.set(key, definition);
AddUIOne(m, key, u) ==
    [m EXCEPT ![key] = [Undefined EXCEPT !.kind = "definition", !.ui = u.ui]]

\* addUI(key, definition) for a single key.
addUI(key, u) ==
    /\ call' = "addUI"
    /\ adds < MaxAdds
    /\ ui_structures' = AddUIOne(ui_structures, key, u)
    /\ adds' = adds + 1
    /\ out' = <<EvDef(":added-definition", key)>>
    /\ result' = "return"
    /\ ProfilesKept
    /\ UNCHANGED <<switchboard, definitions, subs, providerVars, queueVars, enabled,
                   backup, timer>>

\* What add() is given when it is handed an argument of addUI(): the ui
\* object itself has no ui, no requires, no default and no changed.
AsDefinition(u) ==
    [requires |-> <<>>, dflt |-> 0, changed |-> FALSE,
     ui |-> IF u.wrapped THEN u.ui ELSE 0, has_requires |-> FALSE]

\* addUI(key) with an object for `key`:
\* for(const k in key) if ( has(key, k) ) this.add(k, key[k]);
AddUIEach(mapping) ==
    [i \in 1..Len(mapping) |-> Pair(mapping[i].k, AsDefinition(mapping[i].d))]

addUIAll(mapping) ==
    /\ call' = "addUI"
    /\ adds + Len(mapping) <= MaxAdds
    /\ definitions' = AddEach(definitions, AddUIEach(mapping))
    /\ subs' = SubscribeEach(subs, AddUIEach(mapping))
    /\ adds' = adds + Len(mapping)
    /\ out' = AddedEach(mapping)
    /\ result' = "return"
    /\ ProfilesKept
    /\ UNCHANGED <<switchboard, ui_structures, providerVars, queueVars, enabled, backup, timer>>

----------------------------------------------------------------------------
(* Profile data.  A profile's data is {id, name, context}; the context is  *)
(* nothing, an array of rules (the current format) or an object (the old   *)
(* format, with or without `moderator`).  A SettingsProfile instance is    *)
(* modelled by its data: ids are pairwise distinct in a list, and `out`    *)
(* records every instance a call constructs, which settles whether the     *)
(* instance of an id after a call is the one from before it.               *)

Given(n) == [n |-> n, kind |-> "given"]
Unnamed(i) == [n |-> i, kind |-> "unnamed"]     \* `Unnamed Profile ${i}`

ArrayContexts == {"mod", "rules"}
LegacyContexts == {"legacy_mod", "legacy_other"}

\* SettingsProfile.Moderation and SettingsProfile.Default; `url` tells whether
\* the data names a remote url.
Moderation == [id |-> 1, name |-> Given(1), context |-> "mod", url |-> FALSE]
Default == [id |-> 0, name |-> Given(0), context |-> "none", url |-> FALSE]

\* null, undefined
NoProfile == [id |-> -1, name |-> Given(0), context |-> "none", url |-> FALSE]
Truthy(p) == p # NoProfile

\* The "monkey patch to the new profile format" of loadProfiles.
PatchContext(c) ==
    IF c # "none" /\ c \notin ArrayContexts
    THEN IF c = "legacy_mod" THEN Moderation.context ELSE "none"
    ELSE c

PatchData(d) == [d EXCEPT !.context = PatchContext(@)]

DeepEquals(a, b) == a = b

\* this.__profile_ids[key]: nothing for a key the object does not hold.
ProfileAt(ids, i) == IF i \in DOMAIN ids THEN ids[i] ELSE NoProfile

\* profile(id)
profile(id) == ProfileAt(profile_ids, id)

IdsOf(l) == {l[i].id : i \in 1..Len(l)}

----------------------------------------------------------------------------
(* Provider keys are strings, modelled as sequences of characters.         *)

ProfilesKey == <<"p", "r", "o", "f", "i", "l", "e", "s">>

Digits == <<"0", "1", "2", "3", "4", "5", "6", "7", "8", "9">>

\* The property key an integer id is coerced to (ids here are below 10).
IdToString(i) == <<Digits[i + 1]>>

OverrideKey(idstr, sub) == <<"p", ":">> \o idstr \o <<":">> \o sub

\* `p:${this.id}:`
Prefix(id) == <<"p", ":">> \o IdToString(id) \o <<":">>

StartsWith(s, pre) == Len(s) >= Len(pre) /\ SubSeq(s, 1, Len(pre)) = pre

\* String.prototype.substr(n): the rest from 0-based index n.
Substr(s, n) == SubSeq(s, n + 1, Len(s))

\* String.prototype.slice(a, b), 0-based, b exclusive.
Slice(s, a, b) == SubSeq(s, a + 1, b)

SubKeys == {<<"a">>, <<"a", ":", "b">>}

\* Keys outside the `p:<id>:<subkey>` scheme, or of no profile.
OtherKeys ==
    {<<"x">>, <<"p">>, <<"p", ":", "1">>, <<"p", "x", ":", "1", ":", "a">>,
     OverrideKey(<<"9">>, <<"a">>), OverrideKey(<<>>, <<"a">>)}

\* Keys the provider may hold.
KeyUniverse ==
    {ProfilesKey}
    \cup {OverrideKey(IdToString(i), sub) : i \in Ids, sub \in SubKeys}
    \cup OtherKeys

Absent == [has |-> FALSE, v |-> 0, list |-> <<>>]
Scalar(n) == [has |-> TRUE, v |-> n, list |-> <<>>]
ListValue(l) == [has |-> TRUE, v |-> 0, list |-> l]

EmptyStore == [k \in KeyUniverse |-> Absent]

\* provider.get('profiles', [SettingsProfile.Moderation, SettingsProfile.Default])
GetProfiles(store) ==
    IF store[ProfilesKey].has THEN store[ProfilesKey].list
    ELSE <<Moderation, Default>>

\* provider.entries(): the pairs of the keys the mirror holds.
Entries(store) == [k \in {k \in KeyUniverse : store[k].has} |-> store[k]]

\* profile.clear(): deletes every key of the profile's prefix.
Clear(store, id) ==
    [k \in KeyUniverse |-> IF StartsWith(k, Prefix(id)) THEN Absent ELSE store[k]]

----------------------------------------------------------------------------
(* loadProfiles *)

Listeners == {"ui"}
NoListeners == [i \in Ids |-> {}]

\* for(const context of this.__contexts) context.selectProfiles();
SelectAll == [c \in 1..NumContexts |-> Ev("select", c)]

\* Set.prototype.add on a Set, which keeps insertion order.
SetAdd(s, x) == IF x \in Range(s) THEN s ELSE Append(s, x)

\* old_profile ? old_profiles.indexOf(old_profile) : -1
OldSlot(old_profiles, old_profile) ==
    IF Truthy(old_profile) THEN IndexOf(old_profiles, old_profile) ELSE -1

\* (mutant) the slot compared as if slots were counted from 1
SlotMovedOffByOne(old_slot_id, slot_id) == old_slot_id # slot_id + 1

\* if ( old_slot_id !== slot_id ) reordered = true;
SlotMoved(old_slot_id, slot_id) == old_slot_id # slot_id

\* old_profile && deep_equals(old_profile.data, profile_data, true)
Reusable(old_profile, profile_data) ==
    Truthy(old_profile) /\ DeepEquals(old_profile, profile_data)

\* if ( ! changed && ! old_ids.size || suppress_events ) return;
LoadReturnsEarly(changed, old_ids, suppress_events) ==
    (~changed /\ old_ids = {}) \/ suppress_events

\* new_profile.__listeners = old_profile.__listeners;
ListenersTaken(old_listeners) == old_listeners

\* (mutant) the old instance keeps its listeners
ListenersKept(old_listeners) == old_listeners

\* old_profile.__listeners = {};
ListenersLeft(old_listeners) == {}

\* One turn of the loop over raw_profiles.
LoadStep(st, old_profile_ids, old_profiles, raw_data) ==
    LET id == raw_data.id
        slot_id == Len(st.profiles)
        old_profile == ProfileAt(old_profile_ids, id)
        old_slot_id == OldSlot(old_profiles, old_profile)
        profile_data == PatchData(raw_data)
        moved == SlotMoved(old_slot_id, slot_id)
        base == [st EXCEPT !.old_ids = @ \ {id},
                           !.reordered = @ \/ moved,
                           !.raw = Append(@, profile_data)]
    IN  IF Reusable(old_profile, profile_data)
        THEN [base EXCEPT !.changed = @ \/ moved,
                          !.profile_ids[id] = old_profile,
                          !.profiles = Append(@, old_profile)]
        ELSE [base EXCEPT
                !.profile_ids[id] = profile_data,
                !.constructed = Append(@, Ev("new", id)),
                !.listeners[id] = IF Truthy(old_profile)
                                  THEN ListenersTaken(st.listeners[id]) ELSE {},
                !.retired[id] = IF Truthy(old_profile)
                                THEN [listeners |-> ListenersLeft(st.listeners[id]),
                                      replaced |-> TRUE]
                                ELSE @,
                !.changed_ids = IF Truthy(old_profile) THEN SetAdd(@, id) ELSE @,
                !.new_ids = IF Truthy(old_profile) THEN @ ELSE SetAdd(@, id),
                !.profiles = Append(@, profile_data),
                !.changed = TRUE]

RECURSIVE LoadLoop(_, _, _, _)
LoadLoop(st, old_profile_ids, old_profiles, raw) ==
    IF raw = <<>> THEN st
    ELSE LoadLoop(LoadStep(st, old_profile_ids, old_profiles, Head(raw)),
                  old_profile_ids, old_profiles, Tail(raw))

\* if ( reordered ) this.emit(':profiles-reordered');
ReorderedEvent(reordered) ==
    IF reordered THEN <<Ev(":profiles-reordered", -1)>> ELSE <<>>

\* The events of an unsuppressed loadProfiles that found a difference.
LoadEvents(st) ==
    SelectAll
    \o [i \in 1..Len(st.new_ids) |-> Ev(":profile-created", st.new_ids[i])]
    \o [i \in 1..Len(st.changed_ids) |-> Ev(":profile-changed", st.changed_ids[i])]
    \o ReorderedEvent(st.reordered)

\* The listeners of the instances still in the id map.
LiveListeners(ls, ids) == [i \in Ids |-> IF Truthy(ids[i]) THEN ls[i] ELSE {}]

\* loadProfiles(suppress_events) on a manager state m = [profiles,
\* profile_ids, listeners, retired, provider]: the state afterwards, and
\* `out`.  The patch of an old-format context is made on the object the
\* provider returned, so it shows in the mirror too.
LoadProfiles(m, suppress_events) ==
    LET start == [profiles |-> <<>>,
                  profile_ids |-> [i \in Ids |-> NoProfile],
                  listeners |-> m.listeners,
                  retired |-> NoneRetired,
                  changed |-> FALSE,
                  old_ids |-> IdsOf(m.profiles),
                  reordered |-> FALSE, raw |-> <<>>,
                  constructed |-> <<>>, changed_ids |-> <<>>, new_ids |-> <<>>]
        st == LoadLoop(start, m.profile_ids, m.profiles, GetProfiles(m.provider))
    IN  [profiles |-> st.profiles,
         profile_ids |-> st.profile_ids,
         listeners |-> LiveListeners(st.listeners, st.profile_ids),
         retired |-> st.retired,
         provider |-> IF m.provider[ProfilesKey].has
                      THEN [m.provider EXCEPT ![ProfilesKey] = ListValue(st.raw)]
                      ELSE m.provider,
         out |-> st.constructed
                 \o (IF LoadReturnsEarly(st.changed, st.old_ids, suppress_events)
                     THEN <<>> ELSE LoadEvents(st))]

Manager ==
    [profiles |-> profiles, profile_ids |-> profile_ids,
     listeners |-> listeners, retired |-> NoneRetired, provider |-> provider]

\* Takes the manager to the state r and leaves r.out in `out`.
Becomes(r) ==
    /\ profiles' = r.profiles
    /\ profile_ids' = r.profile_ids
    /\ listeners' = r.listeners
    /\ retired' = r.retired
    /\ provider' = r.provider
    /\ out' = r.out

----------------------------------------------------------------------------
(* The update sweep *)

\* No timeout armed yet: this._update_timer is undefined.
NoTimer == [update_timer |-> 0, pending |-> {}]

\* The handle setTimeout() returns: one that names no pending timeout and is
\* not the handle the manager still holds.
NewTimer(t) ==
    CHOOSE id \in 1..(Cardinality(t.pending) + 2) :
        /\ id \notin t.pending \cup {t.update_timer}
        /\ \A j \in 1..(id - 1) : j \in t.pending \cup {t.update_timer}

\* clearTimeout(id): `val` tells whether the timeout was still pending.
EvClear(t) ==
    [Ev("clearTimeout", t.update_timer)
        EXCEPT !.val = IF t.update_timer \in t.pending THEN 1 ELSE 0]

\* (mutant) the pending timeout is not cancelled
Uncancelled(t) == t.pending

\* if ( this._update_timer ) clearTimeout(this._update_timer);
Cancelled(t) ==
    IF t.update_timer # 0 THEN t.pending \ {t.update_timer} ELSE t.pending

\* scheduleUpdates(): the timers afterwards, and what it did.
Armed(t) ==
    [update_timer |-> NewTimer(t), pending |-> Cancelled(t) \cup {NewTimer(t)}]

ScheduleLog(t) ==
    (IF t.update_timer # 0 THEN <<EvClear(t)>> ELSE <<>>)
    \o <<Ev("setTimeout", NewTimer(t))>>

scheduleUpdates ==
    /\ call' = "scheduleUpdates"
    /\ timer' = Armed(timer)
    /\ out' = ScheduleLog(timer)
    /\ result' = "return"
    /\ ProfilesKept
    /\ UNCHANGED <<switchboard, registryVars, providerVars, enabled, queueVars, backup>>

\* What profile.checkUpdate() may do: resolve to a truthy or a falsy value,
\* return a promise that rejects, or throw.
Outcomes == {"refreshed", "unchanged", "rejects", "throws"}

\* The profiles checkUpdate() is invoked on, in order: those with a url, up
\* to and including the first whose checkUpdate() throws.
RECURSIVE Checked(_, _)
Checked(list, outcome) ==
    IF list = <<>> THEN <<>>
    ELSE IF ~Head(list).url THEN Checked(Tail(list), outcome)
    ELSE IF outcome[Head(list).id] = "throws" THEN <<Head(list).id>>
    ELSE <<Head(list).id>> \o Checked(Tail(list), outcome)

\* The loop of checkUpdates() ran to its end.
LoopCompletes(list, outcome) ==
    \A i \in Range(Checked(list, outcome)) : outcome[i] # "throws"

\* Promise.all(promises) is fulfilled: its then-callback runs.
AllFulfilled(list, outcome) ==
    \A i \in Range(Checked(list, outcome)) : outcome[i] # "rejects"

\* The summary logged by the then-callback: `id` is the success tally and
\* `val` is data.length.
EvSummary(list, outcome) ==
    [Ev("summary", Cardinality({i \in Range(Checked(list, outcome)) :
                                   outcome[i] = "refreshed"}))
        EXCEPT !.val = Len(Checked(list, outcome))]

\* What one checkUpdates() does, its then-callback included.
Sweep(list, outcome) ==
    [i \in 1..Len(Checked(list, outcome)) |->
        Ev("checkUpdate", Checked(list, outcome)[i])]
    \o (IF LoopCompletes(list, outcome) /\ AllFulfilled(list, outcome)
        THEN <<EvSummary(list, outcome)>> ELSE <<>>)

\* The timeout `id` fires: () => this.checkUpdates()
checkUpdates(id, outcome) ==
    /\ call' = "checkUpdates"
    /\ id \in timer.pending
    /\ timer' = [timer EXCEPT !.pending = @ \ {id}]
    /\ out' = Sweep(profiles, outcome)
    /\ result' = IF LoopCompletes(profiles, outcome) THEN "return" ELSE "throw"
    /\ ProfilesKept
    /\ UNCHANGED <<switchboard, registryVars, providerVars, enabled, queueVars, backup>>

----------------------------------------------------------------------------
(* Startup *)

\* The provider finishes its initial load; awaitReady() resolves from now on.
providerReady ==
    /\ call' = "awaitReady"
    /\ ~ready
    /\ ready' = TRUE
    /\ out' = <<>>
    /\ result' = "return"
    /\ ProfilesKept
    /\ UNCHANGED <<switchboard, registryVars, provider, queueVars, enabled, backup, timer>>

\* onEnable, from its await of provider.awaitReady() to its end.
onEnable ==
    /\ call' = "onEnable"
    /\ ready /\ ~enabled
    /\ LET r == LoadProfiles(Manager, TRUE)
       IN  Becomes([r EXCEPT !.out = @ \o SelectAll \o ScheduleLog(timer)])
    /\ enabled' = TRUE
    /\ timer' = Armed(timer)
    /\ result' = "return"
    /\ UNCHANGED <<switchboard, registryVars, ready, queueVars, backup>>

----------------------------------------------------------------------------
(* Profile management *)

\* The `id` argument of deleteProfile, moveProfile and saveProfile: a number
\* or a SettingsProfile instance.
NumArg(i) == [id |-> i, is_obj |-> FALSE]
ObjArg(i) == [id |-> i, is_obj |-> TRUE]

\* if ( typeof id === 'object' && id.id ) id = id.id;
ResolveArg(arg) ==
    IF arg.is_obj /\ arg.id # 0 THEN NumArg(arg.id) ELSE arg

\* this.__profile_ids[id]: an object used as a property key names no id.
Lookup(ids, arg) ==
    IF arg.is_obj THEN NoProfile ELSE ProfileAt(ids, arg.id)

\* (mutant) the new id taken from the number of profiles
NextIdFromCount(ids, i) == Cardinality({j \in DOMAIN ids : Truthy(ids[j])})

\* let i = 0; while( this.__profile_ids[i] ) i++;
RECURSIVE NextId(_, _)
NextId(ids, i) == IF Truthy(ProfileAt(ids, i)) THEN NextId(ids, i + 1) ELSE i

\* (mutant) the list is written and no context selects
SaveWithoutSelect == <<Ev("set-profiles", -1)>>

\* _saveProfiles(): this.provider.set('profiles', ...), then every context
\* selects.
SaveProfiles == <<Ev("set-profiles", -1)>> \o SelectAll

\* (mutant) the list is not written
StoreNothing(store, list) == store

\* this.provider.set('profiles', this.__profiles.map(prof => prof.data))
StoreProfiles(store, list) == [store EXCEPT ![ProfilesKey] = ListValue(list)]

\* The options of createProfile: a name and a context may be given.
CreateOptions ==
    {[name |-> Given(0), context |-> "none", url |-> FALSE, has_name |-> FALSE],
     [name |-> Given(1), context |-> "mod", url |-> FALSE, has_name |-> TRUE]}

\* if ( ! options.name ) options.name = `Unnamed Profile ${i}`;
OptionsName(options, i) == IF options.has_name THEN options.name ELSE Unnamed(i)

\* (mutant) the new profile is appended
Push(list, p) == Append(list, p)

\* this.__profiles.unshift(profile)
Unshift(list, p) == <<p>> \o list

createProfile(options) ==
    /\ call' = "createProfile"
    /\ enabled
    /\ Len(profiles) < MaxProfiles
    /\ LET i == NextId(profile_ids, 0)
           new_profile == [id |-> i, name |-> OptionsName(options, i),
                           context |-> options.context, url |-> options.url]
           list == Unshift(profiles, new_profile)
       IN  /\ profile_ids' = [profile_ids EXCEPT ![i] = new_profile]
           /\ listeners' = [listeners EXCEPT ![i] = {}]
           /\ profiles' = list
           /\ provider' = StoreProfiles(provider, list)
           /\ out' = <<Ev("new", i)>> \o SaveProfiles
                     \o <<Ev(":profile-created", i)>>
    /\ retired' = NoneRetired
    /\ result' = "return"
    /\ UNCHANGED <<switchboard, registryVars, ready, enabled, queueVars, backup, timer>>

\* throw new Error(...): nothing of the manager changes.
Throws(method) ==
    /\ call' = method
    /\ result' = "throw"
    /\ out' = <<>>
    /\ ProfilesKept
    /\ UNCHANGED <<switchboard, registryVars, providerVars, enabled, queueVars, backup, timer>>

\* if ( ! profile ) return;
ReturnsUnchanged(method) ==
    /\ call' = method
    /\ result' = "return"
    /\ out' = <<>>
    /\ ProfilesKept
    /\ UNCHANGED <<switchboard, registryVars, providerVars, enabled, queueVars, backup, timer>>

\* if ( profile.id === 0 ) throw ...
IsDefaultProfile(p) == p.id = 0

\* (mutant) the id map left as it was
StillMapped(ids, id) == ids

\* this.__profile_ids[id] = null;
Unmap(ids, id) == [ids EXCEPT ![id] = NoProfile]

deleteProfile(arg) ==
    /\ enabled
    /\ LET id == ResolveArg(arg)
           p == Lookup(profile_ids, id)
       IN  IF ~Truthy(p) THEN ReturnsUnchanged("deleteProfile")
           ELSE IF IsDefaultProfile(p) THEN Throws("deleteProfile")
           ELSE LET idx == IndexOf(profiles, p)
                    list == IF idx # -1 THEN RemoveAt(profiles, idx) ELSE profiles
                IN  /\ profile_ids' = Unmap(profile_ids, id.id)
                    /\ listeners' = LiveListeners(listeners, profile_ids')
                    /\ profiles' = list
                    /\ provider' = StoreProfiles(Clear(provider, p.id), list)
                    /\ out' = <<Ev("clear", p.id)>> \o SaveProfiles
                              \o <<Ev(":profile-deleted", p.id)>>
                    /\ retired' = NoneRetired
                    /\ call' = "deleteProfile"
                    /\ result' = "return"
                    /\ UNCHANGED <<switchboard, registryVars, ready, enabled, queueVars,
                                   backup, timer>>

\* (mutant) the two profiles exchanged instead of one moved
MoveBySwap(list, idx, index) ==
    IF index < Len(list)
    THEN [list EXCEPT ![idx + 1] = list[index + 1], ![index + 1] = list[idx + 1]]
    ELSE Append(RemoveAt(list, idx), list[idx + 1])

\* profiles.splice(index, 0, ...profiles.splice(idx, 1))
MoveTo(list, idx, index) == InsertAt(RemoveAt(list, idx), index, list[idx + 1])

\* if ( idx === index ) return;
AlreadyThere(idx, index) == idx = index

moveProfile(arg, index) ==
    /\ enabled
    /\ LET id == ResolveArg(arg)
           p == Lookup(profile_ids, id)
           idx == IndexOf(profiles, p)
       IN  IF ~Truthy(p) \/ AlreadyThere(idx, index) THEN ReturnsUnchanged("moveProfile")
           ELSE LET list == MoveTo(profiles, idx, index)
                IN  /\ profiles' = list
                    /\ provider' = StoreProfiles(provider, list)
                    /\ out' = SaveProfiles \o <<Ev(":profiles-reordered", -1)>>
                    /\ retired' = NoneRetired
                    /\ call' = "moveProfile"
                    /\ result' = "return"
                    /\ UNCHANGED <<switchboard, registryVars, profile_ids, listeners, ready,
                                   enabled, queueVars, backup, timer>>

saveProfile(arg) ==
    /\ enabled
    /\ LET id == ResolveArg(arg)
           p == Lookup(profile_ids, id)
       IN  IF ~Truthy(p) THEN ReturnsUnchanged("saveProfile")
           ELSE /\ provider' = StoreProfiles(provider, profiles)
                /\ out' = SaveProfiles \o <<Ev(":profile-changed", p.id)>>
                /\ call' = "saveProfile"
                /\ result' = "return"
                /\ ProfilesKept
                /\ UNCHANGED <<switchboard, registryVars, ready, enabled, queueVars,
                               backup, timer>>

\* for(const profile of this.__profiles) profile.matcher = null;
ClearMatchers(list) == [i \in 1..Len(list) |-> Ev("matcher = null", list[i].id)]

\* (mutant) the contexts reselect before the matchers are cleared
SelectThenClear(list) == SelectAll \o ClearMatchers(list)

\* What updateRoutes() does, in order.
ClearThenSelect(list) == ClearMatchers(list) \o SelectAll

\* The handler of 'site.router:updated-routes', subscribed in onEnable.
updateRoutes ==
    /\ call' = "updateRoutes"
    /\ enabled
    /\ out' = ClearThenSelect(profiles)
    /\ result' = "return"
    /\ ProfilesKept
    /\ UNCHANGED <<switchboard, registryVars, providerVars, enabled, queueVars, backup, timer>>

\* profile.on('changed', fn): a context or a UI component listens to a
\* live profile.
profileOn(id, l) ==
    /\ call' = "profile.on"
    /\ enabled
    /\ Truthy(profile(id))
    /\ l \notin listeners[id]
    /\ listeners' = [listeners EXCEPT ![id] = @ \cup {l}]
    /\ retired' = NoneRetired
    /\ out' = <<>>
    /\ result' = "return"
    /\ UNCHANGED <<switchboard, registryVars, profiles, profile_ids, providerVars,
                   enabled, queueVars, backup, timer>>

\* profile.set(key, value): a local write of an override of a live profile.
profileSet(id, sub, value) ==
    /\ call' = "profile.set"
    /\ enabled
    /\ Truthy(profile(id))
    /\ provider' = [provider EXCEPT ![OverrideKey(IdToString(id), sub)] = Scalar(value)]
    /\ out' = <<EvChanged(id, sub, value, FALSE)>>
    /\ result' = "return"
    /\ ProfilesKept
    /\ UNCHANGED <<switchboard, registryVars, ready, enabled, queueVars, backup, timer>>

----------------------------------------------------------------------------
(* Provider change notifications *)

\* String.prototype.indexOf(':'), 0-based, -1 when absent.
IndexOfColon(s) == IndexOf(s, ":")

\* this.__profile_ids[str]: the entry whose id coerces to the string str.
LookupString(ids, str) ==
    IF \E i \in DOMAIN ids : IdToString(i) = str
    THEN ids[CHOOSE i \in DOMAIN ids : IdToString(i) = str]
    ELSE NoProfile

\* key.startsWith('p:')
HasProfilePrefix(key) == StartsWith(key, <<"p", ":">>)

\* key.slice(0, idx)
IdPartOf(key, idx) == Slice(key, 0, idx)

\* (mutant) the subkey cut at its own first colon
SubKeyToColon(key, idx) ==
    LET rest == Slice(key, idx + 1, Len(key))
    IN  IF IndexOfColon(rest) = -1 THEN rest ELSE Slice(rest, 0, IndexOfColon(rest))

\* key.slice(idx + 1)
SubKeyOf(key, idx) == Slice(key, idx + 1, Len(key))

Ignored(m) == m @@ [out |-> <<>>]

\* if ( profile ) profile.emit('changed', s_key, new_value, deleted);
Forward(m, p, s_key, new_value, deleted) ==
    IF Truthy(p)
    THEN m @@ [out |-> <<EvChanged(p.id, s_key, new_value.v, deleted)>>]
    ELSE Ignored(m)

\* (mutant) the reload of the profiles left for later: the id map stays as
\* it was when the next notification is handled
OnProviderChangeWithoutReload(m, key, new_value, deleted) ==
    IF key = ProfilesKey \/ ~HasProfilePrefix(key) THEN Ignored(m)
    ELSE LET rest == Substr(key, 2)
             idx == IndexOfColon(rest)
         IN  IF idx = -1 THEN Ignored(m)
             ELSE Forward(m, LookupString(m.profile_ids, IdPartOf(rest, idx)),
                          SubKeyOf(rest, idx), new_value, deleted)

\* _onProviderChange(key, new_value, deleted) on the manager state m.
OnProviderChange(m, key, new_value, deleted) ==
    IF key = ProfilesKey THEN LoadProfiles(m, FALSE)
    ELSE IF ~HasProfilePrefix(key) THEN Ignored(m)
    ELSE LET rest == Substr(key, 2)
             idx == IndexOfColon(rest)
         IN  IF idx = -1 THEN Ignored(m)
             ELSE Forward(m, LookupString(m.profile_ids, IdPartOf(rest, idx)),
                          SubKeyOf(rest, idx), new_value, deleted)

\* A change made elsewhere (another tab, another device) reaches the
\* provider: it updates its mirror and emits 'changed', which the manager
\* handles to the end.
Handle(note) ==
    LET mirror == [provider EXCEPT ![note.key] =
                      IF note.deleted THEN Absent ELSE note.value]
    IN  /\ Becomes(OnProviderChange([Manager EXCEPT !.provider = mirror],
                                    note.key, note.value, note.deleted))
        /\ call' = "_onProviderChange"
        /\ result' = "return"

Note(n, key, value, deleted) ==
    [n |-> n, key |-> key, value |-> value, deleted |-> deleted]

\* A change made elsewhere, handled as soon as it arrives.
providerChanged(key, value, deleted) ==
    /\ inflight = <<>>
    /\ Handle(Note(0, key, value, deleted))
    /\ UNCHANGED <<switchboard, registryVars, ready, enabled, queueVars, backup, timer>>

\* A change made elsewhere arrives while the event loop is busy: its
\* notification waits behind the earlier ones.
notify(key, value, deleted) ==
    /\ call' = "notify"
    /\ Len(inflight) < MaxInflight
    /\ arrived < MaxArrived
    /\ arrived' = arrived + 1
    /\ inflight' = Append(inflight, Note(arrived + 1, key, value, deleted))
    /\ out' = <<>>
    /\ result' = "return"
    /\ ProfilesKept
    /\ UNCHANGED <<switchboard, registryVars, providerVars, enabled, handled, backup, timer>>

\* The notification the event loop takes next, and the ones it leaves.
NextNote(queue) == Head(queue)
RestNotes(queue) == Tail(queue)

deliver ==
    /\ inflight # <<>>
    /\ Handle(NextNote(inflight))
    /\ inflight' = RestNotes(inflight)
    /\ handled' = Append(handled, [n |-> NextNote(inflight).n,
                                    key |-> NextNote(inflight).key])
    /\ UNCHANGED <<switchboard, registryVars, ready, enabled, arrived, backup, timer>>

----------------------------------------------------------------------------
(* Backup *)

NoBackup ==
    [pc |-> "idle", version |-> 0, type |-> "", values |-> Entries(EmptyStore)]

\* getFullBackup() up to its await of provider.awaitReady().
getFullBackup ==
    /\ call' = "getFullBackup"
    /\ backup.pc # "waiting"
    /\ backup' = [NoBackup EXCEPT !.pc = "waiting"]
    /\ out' = <<>>
    /\ result' = "return"
    /\ ProfilesKept
    /\ UNCHANGED <<switchboard, registryVars, providerVars, enabled, queueVars, timer>>

\* (mutant) the profile list left out of the backup
SnapshotOfSettings(store) ==
    [k \in {k \in KeyUniverse : store[k].has /\ k # ProfilesKey} |-> store[k]]

\* for(const [k, v] of this.provider.entries()) out.values[k] = v;
Snapshot(store) == Entries(store)

\* await this.provider.awaitReady() resolves once the provider is ready.
BackupMayResume == ready

\* getFullBackup() from its await to its end.
getFullBackupResume ==
    /\ call' = "getFullBackup"
    /\ backup.pc = "waiting"
    /\ BackupMayResume
    /\ backup' = [pc |-> "done", version |-> 2, type |-> "full",
                  values |-> Snapshot(provider)]
    /\ out' = <<>>
    /\ result' = "return"
    /\ ProfilesKept
    /\ UNCHANGED <<switchboard, registryVars, providerVars, enabled, queueVars, timer>>

----------------------------------------------------------------------------
(* Switchboard (sites/twitch-clips)                                        *)

\* The module after its constructor: onEnable has not run, web_munch has
\* not found its require yet (v4 is undefined), no loader was invoked.
NoSwitchboard ==
    [pc |-> "enabling", retries |-> 0, require |-> FALSE, v4 |-> "undefined",
     loaded |-> <<>>]

\* web_munch finds the page's require, or finds that the page is not a v4
\* one.
webMunch(require, v4) ==
    /\ call' = "web_munch"
    /\ ~switchboard.require /\ switchboard.v4 = "undefined"
    /\ switchboard' = [switchboard EXCEPT !.require = require, !.v4 = v4]
    /\ out' = <<>>
    /\ result' = "return"
    /\ ProfilesKept
    /\ UNCHANGED <<registryVars, providerVars, enabled, queueVars, backup, timer>>

\* pathToRegexp(path) over the paths "/", "/x", "/:p" and "(" and the
\* locations "/", "/x" and "/y": it throws for the pattern "(", and its
\* exec(location) matches a literal path against itself and "/:p" against
\* every location of one segment.
Compiles(path) == path # "("
Matches(path, location) ==
    \/ path = location
    \/ path = "/:p" /\ location # "/"

\* The children of the Switch: a route has no component, or one whose
\* constructor throws, one without a loader, or one with a loader that
\* returns a promise or throws.
Routes ==
    {[path |-> x, component |-> c] :
        c \in {"none", "throws", "plain", "loader", "loader throws"},
        x \in {"/", "/x", "/:p", "("}}

\* Lines 41-51: the route has a component, its path compiles and does not
\* match the location.
Eligible(route, location) ==
    /\ route.component # "none"
    /\ Compiles(route.path)
    /\ ~Matches(route.path, location)

\* Lines 57-65: the component was instantiated and has a loader.
HasLoader(route) == route.component \in {"loader", "loader throws"}

\* (mutant) the loop goes on after a loader was invoked
KeepTrying(rest) == rest

\* return; after the loader was invoked, whether or not it threw
AfterLoader(rest) == <<>>

\* The loop over the routes from the i-th on: the components instantiated
\* and the loaders invoked, in order.
RECURSIVE TryRoutes(_, _, _)
TryRoutes(routes, location, i) ==
    IF i > Len(routes) THEN <<>>
    ELSE LET rest == TryRoutes(routes, location, i + 1)
         IN  IF ~Eligible(routes[i], location) THEN rest
             ELSE <<Ev("new component", i)>>
                  \o (IF ~HasLoader(routes[i]) THEN rest
                      ELSE <<Ev("loader", i)>> \o AfterLoader(rest))

\* The routes whose loader a run invoked, each with the location of the run.
Loaded(routes, location) ==
    LET log == TryRoutes(routes, location, 1)
        at == {k \in 1..Len(log) : log[k].ev = "loader"}
    IN  [n \in 1..Cardinality(at) |->
            LET k == CHOOSE k \in at : Cardinality({j \in at : j <= k}) = n
            IN  [location |-> location, route |-> routes[log[k].id]]]

\* Switchboard.onEnable from its await of '.clips-root' to its end; a run
\* that finds no Switch arms the 50 ms timer that runs onEnable again.
\* `found` tells whether fine.searchTree finds the Switch, whose children
\* are `routes` and whose router is at `location`.
switchboardOnEnable(found, routes, location) ==
    /\ call' = "Switchboard.onEnable"
    /\ switchboard.pc # "done"
    /\ IF switchboard.require \/ switchboard.v4 = "false"
       THEN /\ switchboard' = [switchboard EXCEPT !.pc = "done"]
            /\ out' = <<>>
       ELSE IF ~found
       THEN /\ switchboard.retries < MaxRetries
            /\ switchboard' = [switchboard EXCEPT !.pc = "retrying",
                                                  !.retries = @ + 1]
            /\ out' = <<Ev("setTimeout", 50)>>
       ELSE /\ switchboard' =
                [switchboard EXCEPT !.pc = "done",
                                    !.loaded = @ \o Loaded(routes, location)]
            /\ out' = TryRoutes(routes, location, 1)
    /\ result' = "return"
    /\ ProfilesKept
    /\ UNCHANGED <<registryVars, providerVars, enabled, queueVars, backup, timer>>

----------------------------------------------------------------------------
(* Initial state: the manager as its constructor leaves it, over what the  *)
(* storage holds from earlier sessions.                                    *)

InitialStores ==
    {EmptyStore,
     StoreProfiles(EmptyStore, <<Moderation, Default>>),
     StoreProfiles(EmptyStore, <<[Moderation EXCEPT !.context = "legacy_mod"],
                                 [Default EXCEPT !.context = "legacy_other"]>>)}

Init ==
    /\ definitions = [k \in DefKeys |-> Undefined]
    /\ subs = [k \in DefKeys |-> 0]
    /\ adds = 0
    /\ ui_structures = [k \in DefKeys |-> Undefined]
    /\ profiles = <<>>
    /\ profile_ids = [i \in Ids |-> NoProfile]
    /\ listeners = NoListeners
    /\ retired = NoneRetired
    /\ provider \in InitialStores
    /\ ready = FALSE
    /\ enabled = FALSE
    /\ inflight = <<>>
    /\ arrived = 0
    /\ handled = <<>>
    /\ backup = NoBackup
    /\ timer = NoTimer
    /\ switchboard = NoSwitchboard
    /\ call = "constructor"
    /\ result = "return"
    /\ out = <<>>

----------------------------------------------------------------------------
(* The profile lists another tab or device may write: profiles with        *)
(* pairwise distinct ids, in any order, in the current or the old format.  *)

ExternalContexts == {"none", "legacy_mod"}

ExternalName(i) == IF i = 0 THEN Given(0) ELSE Given(1)

ExternalData ==
    {[id |-> i, name |-> ExternalName(i), context |-> c, url |-> FALSE] :
        i \in Ids, c \in ExternalContexts}

DistinctIds(l) == \A i, j \in 1..Len(l) : i # j => l[i].id # l[j].id

ExternalLists == {l \in SeqsUpTo(ExternalData, MaxProfiles) : DistinctIds(l)}

Args == {NumArg(i) : i \in Ids} \cup {ObjArg(i) : i \in Ids}

----------------------------------------------------------------------------
(* Specifications *)

\* Two lists another tab may leave: one that drops profile 1 and
\* introduces profile 2, one that changes profile 1.
NotifyLists ==
    {<<Default, [id |-> 2, name |-> Given(1), context |-> "none", url |-> FALSE]>>,
     <<[Moderation EXCEPT !.context = "none"], Default>>}

\* The profile list under the manager's own operations, with changes from
\* elsewhere in between.
Next ==
    \/ providerReady
    \/ onEnable
    \/ \E options \in CreateOptions : createProfile(options)
    \/ \E arg \in Args : deleteProfile(arg)
    \/ \E arg \in Args, index \in 0..(MaxProfiles - 1) : moveProfile(arg, index)
    \/ \E arg \in Args : saveProfile(arg)
    \/ \E l \in NotifyLists : providerChanged(ProfilesKey, ListValue(l), FALSE)
    \/ providerChanged(ProfilesKey, ListValue(profiles), FALSE)
    \/ providerChanged(ProfilesKey, Absent, TRUE)

Spec == Init /\ [][Next]_vars

\* loadProfiles over every list another tab may write, from every list the
\* manager may hold.
NextLoad ==
    \/ providerReady
    \/ onEnable
    \/ \E options \in CreateOptions : createProfile(options)
    \/ \E i \in Ids : deleteProfile(NumArg(i))
    \/ \E l \in Listeners : profileOn(1, l)
    \/ \E l \in ExternalLists : providerChanged(ProfilesKey, ListValue(l), FALSE)
    \/ providerChanged(ProfilesKey, ListValue(profiles), FALSE)
    \/ providerChanged(ProfilesKey, Absent, TRUE)

SpecLoad == Init /\ [][NextLoad]_vars

\* getFullBackup() among the writes to the provider, local and from
\* elsewhere.
BackupKeys == {<<"x">>, OverrideKey(IdToString(1), <<"a">>)}

NextBackup ==
    \/ providerReady
    \/ onEnable
    \/ getFullBackup
    \/ getFullBackupResume
    \/ createProfile([name |-> Given(0), context |-> "none", url |-> FALSE, has_name |-> FALSE])
    \/ \E i \in Ids : deleteProfile(NumArg(i))
    \/ profileSet(1, <<"a">>, 1)
    \/ \E key \in BackupKeys : providerChanged(key, Scalar(2), FALSE)
    \/ \E key \in BackupKeys : providerChanged(key, Absent, TRUE)

SpecBackup == Init /\ [][NextBackup]_vars

\* Notifications of changes made elsewhere, queued behind one another and
\* handled one at a time.
NotifyKeys ==
    {OverrideKey(IdToString(i), <<"a">>) : i \in Ids}
    \cup {OverrideKey(IdToString(1), <<"a", ":", "b">>)}
    \cup OtherKeys

NextNotify ==
    \/ providerReady
    \/ onEnable
    \/ deleteProfile(NumArg(1))
    \/ \E l \in NotifyLists : notify(ProfilesKey, ListValue(l), FALSE)
    \/ \E key \in NotifyKeys : notify(key, Scalar(1), FALSE)
    \/ notify(OverrideKey(IdToString(1), <<"a">>), Absent, TRUE)
    \/ deliver

SpecNotify == Init /\ [][NextNotify]_vars

\* deleteProfile among profiles that hold overrides, with lists written
\* elsewhere in between.
NextDelete ==
    \/ providerReady
    \/ onEnable
    \/ createProfile([name |-> Given(0), context |-> "none", url |-> FALSE, has_name |-> FALSE])
    \/ \E arg \in Args : deleteProfile(arg)
    \/ \E i \in Ids : profileSet(i, <<"a">>, 1)
    \/ profileSet(1, <<"a", ":", "b">>, 1)
    \/ \E l \in NotifyLists : providerChanged(ProfilesKey, ListValue(l), FALSE)

SpecDelete == Init /\ [][NextDelete]_vars

\* The update sweep over profiles with and without a remote url.
SweepOptions ==
    {[name |-> Given(0), context |-> "none", url |-> u, has_name |-> FALSE] :
        u \in BOOLEAN}

timerFires ==
    \E id \in timer.pending, outcome \in [Ids -> Outcomes] :
        checkUpdates(id, outcome)

NextSweep ==
    \/ providerReady
    \/ onEnable
    \/ \E options \in SweepOptions : createProfile(options)
    \/ \E i \in Ids : deleteProfile(NumArg(i))
    \/ scheduleUpdates
    \/ timerFires

SpecSweep == Init /\ [][NextSweep]_vars

\* The sweep left to itself after startup: no call of scheduleUpdates() but
\* onEnable's, and every pending timeout fires in the end.
NextTimer ==
    \/ providerReady
    \/ onEnable
    \/ \E options \in SweepOptions : createProfile(options)
    \/ \E i \in Ids : deleteProfile(NumArg(i))
    \/ timerFires

SpecTimer ==
    /\ Init
    /\ [][NextTimer]_vars
    /\ WF_vars(providerReady)
    /\ WF_vars(onEnable)
    /\ WF_vars(timerFires)

\* Route updates among changes of the profile list.
NextRoutes ==
    \/ providerReady
    \/ onEnable
    \/ \E options \in CreateOptions : createProfile(options)
    \/ \E i \in Ids : deleteProfile(NumArg(i))
    \/ \E i \in Ids, index \in 0..(MaxProfiles - 1) : moveProfile(NumArg(i), index)
    \/ \E l \in NotifyLists : providerChanged(ProfilesKey, ListValue(l), FALSE)
    \/ updateRoutes

SpecRoutes == Init /\ [][NextRoutes]_vars

\* Switchboard.onEnable and its retries, while web_munch may find its
\* require.
NextSwitchboard ==
    \/ \E require \in BOOLEAN, v4 \in {"true", "false"} : webMunch(require, v4)
    \/ \E found \in BOOLEAN, routes \in SeqsUpTo(Routes, 2),
          location \in {"/", "/x", "/y"} :
          switchboardOnEnable(found, routes, location)

SpecSwitchboard == Init /\ [][NextSwitchboard]_vars

\* The registry of definitions under add().
NextRegistry == \E key \in DefKeys, d \in DefInputs : add(key, d)

SpecRegistry == Init /\ [][NextRegistry]_vars

\* The single-key and the mapping forms of add() and addUI().
Mappings(inputs) ==
    {m \in SeqsUpTo({Pair(key, d) : key \in DefKeys, d \in inputs}, 2) :
        \A i, j \in 1..Len(m) : i # j => m[i].k # m[j].k}

PlainDefs == {d \in DefInputs : Len(d.requires) <= 1 /\ d.dflt = 1}

NextUI ==
    \/ \E key \in DefKeys, d \in PlainDefs : add(key, d)
    \/ \E mapping \in Mappings(PlainDefs) : addAll(mapping)
    \/ \E key \in DefKeys, u \in UIInputs : addUI(key, u)
    \/ \E mapping \in Mappings(UIInputs) : addUIAll(mapping)

SpecUI == Init /\ [][NextUI]_vars

----------------------------------------------------------------------------
(* Claims *)

\* C1: in every state of the registry, if the definition registered under
\* key J lists key K in its requires, then J is in K's required_by list
\* (the placeholder array while K is not defined, K's definition afterwards).
C1_RequiredByHoldsEveryRequirer ==
    \A j \in DefKeys, k \in DefKeys :
        (definitions[j].kind = "definition" /\ k \in Range(definitions[j].requires))
            => j \in Range(definitions[k].required_by)

\* loadProfiles() did nothing: no event, no selectProfiles(), no instance
\* constructed or replaced, the list and the id map as before.
LoadWasNoOp ==
    /\ out' = <<>>
    /\ profiles' = profiles
    /\ profile_ids' = profile_ids
    /\ listeners' = listeners
    /\ retired' = NoneRetired

\* C2: a loadProfiles() that finds the persisted 'profiles' list equal to the
\* in-memory list (same ids, same order, deep-equal data) emits no event,
\* runs no selectProfiles() and keeps every instance.
C2_LoadOfUnchangedListIsNoOp ==
    [][\A deleted \in BOOLEAN :
          LET value == IF deleted THEN Absent ELSE ListValue(profiles)
              mirror == [provider EXCEPT ![ProfilesKey] = value]
          IN  (/\ GetProfiles(mirror) = profiles
               /\ providerChanged(ProfilesKey, value, deleted))
              => LoadWasNoOp]_vars

\* C2 witness: a load of the persisted ids [.., .., ..] = the in-memory
\* list (all in the current format) has just returned without any effect.
C2_Witness ==
    /\ call = "_onProviderChange"
    /\ out = <<>>
    /\ IdsOf(profiles) = {0, 1, 2}
    /\ \A i \in 1..Len(profiles) : profiles[i].context = "none"
    /\ provider[ProfilesKey] = ListValue(profiles)

\* The default profile is live and x is its id or the instance itself.
DefaultArgs == {NumArg(0), ObjArg(0)}

\* C3: deleteProfile(x) throws when x is the id 0 or the default profile
\* instance, and then the list, the id map, the persisted list and the
\* stored overrides are unchanged and no :profile-deleted is emitted.
C3_DeleteDefaultThrows ==
    [][\A arg \in DefaultArgs :
          (Truthy(profile(0)) /\ deleteProfile(arg))
          => /\ result' = "throw"
             /\ profiles' = profiles
             /\ profile_ids' = profile_ids
             /\ provider' = provider
             /\ Count(out', ":profile-deleted") = 0]_vars

\* C4: createProfile() gives the new profile the smallest nonnegative
\* integer that is not the id of a profile in the list.
C4_CreateTakesSmallestUnusedId ==
    [][call' = "createProfile"
       => LET i == profiles'[1].id
          IN  /\ i \notin IdsOf(profiles)
              /\ \A j \in 0..(i - 1) : j \in IdsOf(profiles)
              /\ profile_ids'[i] = profiles'[1]]_vars

\* C4 witness: with ids {0, 2} in the list, createProfile() took id 1.
C4_Witness ==
    /\ call = "createProfile"
    /\ profiles[1].id = 1
    /\ IdsOf(profiles) = {0, 1, 2}

\* The arguments that name a profile of the list by the code's own
\* resolution: an id, or an instance whose id is not 0.
NamesProfile(arg) == Truthy(Lookup(profile_ids, ResolveArg(arg)))

C6_BackupIsSnapshot ==
    (call = "getFullBackup" /\ backup.pc = "done")
    => /\ ready
       /\ backup.version = 2
       /\ backup.type = "full"
       /\ DOMAIN backup.values = {k \in KeyUniverse : provider[k].has}
       /\ \A k \in DOMAIN backup.values : backup.values[k] = provider[k]

\* C6 witness: a backup has completed over a provider holding the profile
\* list and two more keys.
C6_Witness ==
    /\ call = "getFullBackup"
    /\ backup.pc = "done"
    /\ ProfilesKey \in DOMAIN backup.values
    /\ Cardinality(DOMAIN backup.values) = 3

\* The entry of `list` that carries `id`, and its slot.
SlotOf(list, id) == CHOOSE i \in 1..Len(list) : list[i].id = id
EntryOf(list, id) == list[SlotOf(list, id)]

\* What an unsuppressed loadProfiles() that found a difference did with
\* `id`, whose prior instance is `prior` and whose persisted entry is `data`.
Created(id) ==
    /\ CountFor(out', "new", id) = 1
    /\ CountFor(out', ":profile-created", id) = 1
    /\ CountFor(out', ":profile-changed", id) = 0

Replaced(id) ==
    /\ CountFor(out', "new", id) = 1
    /\ listeners'[id] = listeners[id]
    /\ retired'[id] = [listeners |-> {}, replaced |-> TRUE]
    /\ CountFor(out', ":profile-changed", id) = 1
    /\ CountFor(out', ":profile-created", id) = 0

Kept(id) ==
    /\ CountFor(out', "new", id) = 0
    /\ profile_ids'[id] = profile_ids[id]
    /\ listeners'[id] = listeners[id]
    /\ ~retired'[id].replaced
    /\ CountFor(out', ":profile-changed", id) = 0
    /\ CountFor(out', ":profile-created", id) = 0

Dropped(id) ==
    /\ ~Truthy(ProfileAt(profile_ids', id))
    /\ id \notin IdsOf(profiles')

Classified(id, in_new, prior, data) ==
    /\ (in_new /\ ~Truthy(prior)) => Created(id)
    /\ (in_new /\ Truthy(prior) /\ ~DeepEquals(prior, data)) => Replaced(id)
    /\ (in_new /\ Truthy(prior) /\ DeepEquals(prior, data)) => Kept(id)
    /\ (~in_new /\ Truthy(prior)) => Dropped(id)

\* C7 (as stated): an unsuppressed loadProfiles() that detects a difference
\* gives an id without a prior instance one :profile-created; an id whose
\* persisted data is not deep-equal to its prior instance's data a new
\* instance with the old one's listeners (the old one left with none) and
\* one :profile-changed; an id with deep-equal data its old instance and no
\* event; and a prior id absent from the list is gone from profile(id) and
\* from the list.  The persisted data is the entry as it was written.
C7_ClassifiesByPersistedData ==
    [][\A l \in ExternalLists :
          (/\ providerChanged(ProfilesKey, ListValue(l), FALSE)
           /\ Count(out', "select") > 0)
          => \A id \in Ids :
                Classified(id, id \in IdsOf(l), profile_ids[id],
                           IF id \in IdsOf(l) THEN EntryOf(l, id) ELSE NoProfile)]_vars

\* C7 (amended): the same classification, with the persisted entry compared
\* after an old-format context in it has been converted to the current
\* format: an entry that differs from the prior instance's data only by
\* being written in the old format keeps its instance and gets no event.
C7_ClassifiesAfterContextPatch ==
    [][(call' = "_onProviderChange" /\ Count(out', "select") > 0)
       => LET list == GetProfiles(provider')
          IN  \A id \in Ids :
                /\ Classified(id, id \in IdsOf(list), profile_ids[id],
                              IF id \in IdsOf(list) THEN EntryOf(list, id)
                              ELSE NoProfile)
                /\ id \in IdsOf(list) => profile_ids'[id] = EntryOf(list, id)]_vars

\* C7 witness: a load has just replaced the instance of a profile that had
\* a listener, kept another instance, and emitted one :profile-changed.
C7_Witness ==
    /\ call = "_onProviderChange"
    /\ \E id \in Ids :
          /\ retired[id] = [listeners |-> {}, replaced |-> TRUE]
          /\ listeners[id] # {}
          /\ CountFor(out, ":profile-changed", id) = 1
    /\ Count(out, "new") = 1
    /\ Len(profiles) >= 2

\* C8: an unsuppressed loadProfiles() emits :profiles-reordered at most
\* once, and emits it exactly when some id of both the old and the new list
\* is at another slot in the new list than in the old one.
C8_ReorderedIffSharedIdMoved ==
    [][call' = "_onProviderChange"
       => Count(out', ":profiles-reordered") =
             IF \E id \in IdsOf(profiles) \cap IdsOf(profiles') :
                   SlotOf(profiles, id) # SlotOf(profiles', id)
             THEN 1 ELSE 0]_vars

\* The provider's mirror once it has taken in the change `note`.
MirrorAfter(note) ==
    [provider EXCEPT ![note.key] = IF note.deleted THEN Absent ELSE note.value]

HandlerLeavesProfiles(note) ==
    /\ profiles' = profiles
    /\ profile_ids' = profile_ids
    /\ listeners' = listeners
    /\ provider' = MirrorAfter(note)

\* C9: _onProviderChange(key, value, deleted) reloads the profiles for the
\* key 'profiles'; for 'p:<id>:<subkey>' with a live profile <id> emits one
\* 'changed' on that profile with the whole remainder after the second
\* colon as subkey, and the value; and for any other key, or an id without
\* a live profile, emits nothing and leaves the list, the id map and the
\* provider as they are.
C9_RoutesByKey ==
    [][deliver
       => LET note == Head(inflight)
          IN  /\ note.key = ProfilesKey
                 => /\ profiles' = GetProfiles(provider')
                    /\ IdsOf(profiles') = IdsOf(GetProfiles(MirrorAfter(note)))
                    /\ \A i \in 1..Len(profiles') :
                          profile_ids'[profiles'[i].id] = profiles'[i]
              /\ \A id \in Ids, sub \in SubKeys :
                    note.key = OverrideKey(IdToString(id), sub)
                    => /\ HandlerLeavesProfiles(note)
                       /\ out' = IF Truthy(profile_ids[id])
                                 THEN <<EvChanged(id, sub, note.value.v, note.deleted)>>
                                 ELSE <<>>
              /\ note.key \in OtherKeys
                 => (HandlerLeavesProfiles(note) /\ out' = <<>>)]_vars

\* C9 witness: the change of 'p:1:a:b' has just been forwarded to profile 1
\* with the subkey 'a:b'.
C9_Witness ==
    /\ call = "_onProviderChange"
    /\ out = <<EvChanged(1, <<"a", ":", "b">>, 1, FALSE)>>

\* A 'profiles' notification has been handled.
ProfilesHandled == \E i \in 1..Len(handled) : handled[i].key = ProfilesKey

\* C10: notifications are handled one at a time in the order they arrived;
\* once a 'profiles' notification has been handled, a notification of
\* 'p:<P>:<k>' is forwarded as one 'changed' to the instance loaded from the
\* last persisted list when that list holds P, and to nothing when it does
\* not.
C10_HandledInOrderOnCurrentInstance ==
    [][Len(handled') = Len(handled) + 1
       => LET n == handled'[Len(handled')].n
              note == CHOOSE x \in Range(inflight) : x.n = n
              list == GetProfiles(provider)
          IN  /\ \A x \in Range(inflight) : n <= x.n
              /\ \A i \in 1..Len(handled) : handled[i].n < n
              /\ \A id \in Ids, sub \in SubKeys :
                    (ProfilesHandled /\ note.key = OverrideKey(IdToString(id), sub))
                    => IF id \in IdsOf(list)
                       THEN /\ profile_ids[id] = EntryOf(list, id)
                            /\ profile_ids'[id] = profile_ids[id]
                            /\ out' = <<EvChanged(id, sub, note.value.v, note.deleted)>>
                       ELSE out' = <<>>]_vars

\* C10 witness: the list that introduces profile 2 and a change of 'p:2:a'
\* arrived in this order, and the change has just been forwarded to
\* profile 2.
C10_Witness ==
    /\ Len(handled) = 2
    /\ handled[1] = [n |-> 1, key |-> ProfilesKey]
    /\ handled[2] = [n |-> 2, key |-> OverrideKey(IdToString(2), <<"a">>)]
    /\ out = <<EvChanged(2, <<"a">>, 1, FALSE)>>

\* C11: from construction until onEnable has run loadProfiles(true), no
\* :profile-created, :profile-changed or :profiles-reordered event is emitted
\* and no context reselects, whatever 'changed' notifications the provider
\* delivers while awaitReady() is pending.
C11_NoProfileEventsBeforeEnable ==
    ~enabled
    => /\ Count(out, ":profile-created") = 0
       /\ Count(out, ":profile-changed") = 0
       /\ Count(out, ":profiles-reordered") = 0
       /\ Count(out, "select") = 0

\* C12: deleteProfile(id) of an existing profile with id != 0 leaves
\* profile(id) null, the profile out of the list with the others in their
\* order, no stored override of the profile, no entry of that id in the
\* persisted 'profiles' list, and exactly one :profile-deleted, carrying the
\* deleted profile; deleteProfile of an unknown id changes and emits nothing.
C12_DeleteRemovesProfile ==
    [][call' = "deleteProfile"
       => \A arg \in Args :
             deleteProfile(arg)
             => LET p == ProfileAt(profile_ids, arg.id)
                IN  IF ~Truthy(p)
                    THEN /\ out' = <<>>
                         /\ result' = "return"
                         /\ UNCHANGED <<profiles, profile_ids, listeners, provider>>
                    ELSE arg.id # 0
                         => /\ ~Truthy(ProfileAt(profile_ids', arg.id))
                            /\ profiles' = SelectSeq(profiles, LAMBDA x : x # p)
                            /\ Len(profiles') = Len(profiles) - 1
                            /\ \A k \in KeyUniverse :
                                  StartsWith(k, OverrideKey(IdToString(arg.id), <<>>))
                                  => ~provider'[k].has
                            /\ provider'[ProfilesKey].has
                            /\ arg.id \notin IdsOf(provider'[ProfilesKey].list)
                            /\ Count(out', ":profile-deleted") = 1
                            /\ CountFor(out', ":profile-deleted", arg.id) = 1]_vars

\* C12 witness: profile 1 has just been deleted from a list of three, and
\* an override of profile 0 is still stored.
C12_Witness ==
    /\ call = "deleteProfile"
    /\ CountFor(out, ":profile-deleted", 1) = 1
    /\ Len(profiles) = 2
    /\ 1 \notin IdsOf(profiles)
    /\ provider[OverrideKey(IdToString(0), <<"a">>)].has
    /\ provider[ProfilesKey] = ListValue(profiles)

\* C13: at most one sweep timeout is pending at any time: scheduleUpdates()
\* leaves exactly the timeout it has just armed, whatever was pending before,
\* and when that timeout has fired and checkUpdates() has run, none is left
\* to run it again.
C13_OneTimerPending ==
    [][/\ Cardinality(timer'.pending) <= 1
       /\ call' = "scheduleUpdates"
          => /\ timer'.update_timer \notin timer.pending
             /\ timer'.pending = {timer'.update_timer}
       /\ call' = "checkUpdates" => timer'.pending = {}]_vars

\* C13 witness: a scheduleUpdates() has just cancelled a timeout that was
\* still pending and armed another.
C13_Witness ==
    /\ call = "scheduleUpdates"
    /\ Len(out) = 2
    /\ out[1].ev = "clearTimeout" /\ out[1].val = 1
    /\ out[2].ev = "setTimeout"
    /\ timer.pending = {timer.update_timer}

\* C14: once onEnable has called scheduleUpdates(), every checkUpdates() run
\* is followed by a sweep timeout pending again, and so, as pending timeouts
\* fire, by another run, with no call of scheduleUpdates() from outside.
C14_SweepReschedulesItself ==
    (call = "checkUpdates") ~> (timer.pending # {})

\* The tally a sweep over `list` owes: the profiles with a url whose
\* checkUpdate() resolved to a truthy value.
Refreshed(list, outcome) ==
    {i \in Ids : /\ \E k \in 1..Len(list) : list[k].id = i /\ list[k].url
                 /\ outcome[i] = "refreshed"}

\* C15: one checkUpdates() sweep invokes checkUpdate() exactly once on every
\* profile with a url and on no other, and produces the success tally over
\* the profiles that succeeded, whether or not a checkUpdate() throws or
\* rejects.
C15_SweepSurvivesFailures ==
    [][call' = "checkUpdates"
       => \A id \in timer.pending, outcome \in [Ids -> Outcomes] :
             checkUpdates(id, outcome)
             => /\ \A i \in Ids :
                      CountFor(out', "checkUpdate", i)
                      = IF \E k \in 1..Len(profiles) :
                              profiles[k].id = i /\ profiles[k].url
                        THEN 1 ELSE 0
                /\ Count(out', "summary") = 1
                /\ CountFor(out', "summary",
                            Cardinality(Refreshed(profiles, outcome))) = 1]_vars

\* The entry of `key` is the definition registered from `d`.
RegisteredAs(key, d) ==
    /\ definitions[key].kind = "definition"
    /\ definitions[key].requires = NormRequires(d)
    /\ definitions[key].dflt = d.dflt
    /\ definitions[key].changed = d.changed

\* C16: add(key, def) of a definition the key is already registered with
\* leaves every entry of the registry, the required_by lists included, and
\* the callbacks subscribed for the key as they were; and any add() of a key
\* that has an entry keeps the required_by list the key had (as the head of
\* its list, when the key now requires itself) and registers the definition
\* passed last.
C16_AddIsIdempotent ==
    [][call' = "add"
       => \A key \in DefKeys, d \in DefInputs :
             add(key, d)
             => /\ RegisteredAs(key, d)
                   => /\ definitions' = definitions
                      /\ \A k \in DefKeys : (subs'[k] > 0) = (subs[k] > 0)
                /\ definitions[key].kind # "undefined"
                   => /\ SubSeq(definitions'[key].required_by, 1,
                                Len(definitions[key].required_by))
                         = definitions[key].required_by
                      /\ definitions'[key].requires = NormRequires(d)
                      /\ definitions'[key].dflt = d.dflt]_vars

\* C17: whenever key J is in K's required_by list, the current definition
\* of J lists K in its requires.
C17_RequiredByOnlyRequirers ==
    \A j \in DefKeys, k \in DefKeys :
        j \in Range(definitions[k].required_by)
        => /\ definitions[j].kind = "definition"
           /\ k \in Range(definitions[j].requires)

\* The registry after add(k, d) for each key of `mapping` in turn.
RECURSIVE AfterEachAdd(_, _)
AfterEachAdd(m, mapping) ==
    IF mapping = <<>> THEN m
    ELSE AfterEachAdd(AddOne(m, mapping[1].k, mapping[1].d),
                      SubSeq(mapping, 2, Len(mapping)))

\* ui_structures after addUI(k, d) for each key of `mapping` in turn.
RECURSIVE AfterEachAddUI(_, _)
AfterEachAddUI(m, mapping) ==
    IF mapping = <<>> THEN m
    ELSE AfterEachAddUI(AddUIOne(m, mapping[1].k, mapping[1].d),
                        SubSeq(mapping, 2, Len(mapping)))

\* C18: add({k: d, ...}) leaves the manager as add(k, d) for each own key
\* does, and addUI({k: d, ...}) leaves it as addUI(k, d) for each own key
\* does: the entries in ui_structures, the definitions untouched.
C18_MappingFormIsEachKey ==
    [][/\ call' = "add"
          => \A mapping \in Mappings(PlainDefs) :
                addAll(mapping)
                => /\ definitions' = AfterEachAdd(definitions, mapping)
                   /\ ui_structures' = ui_structures
       /\ call' = "addUI"
          => \A mapping \in Mappings(UIInputs) :
                addUIAll(mapping)
                => /\ ui_structures' = AfterEachAddUI(ui_structures, mapping)
                   /\ definitions' = definitions
                   /\ subs' = subs]_vars

\* C19: updateRoutes() sets the matcher of every profile of the list to null
\* before selectProfiles() runs on any context, and selectProfiles() then
\* runs exactly once on every registered context.
C19_MatchersClearedBeforeSelect ==
    [][call' = "updateRoutes"
       => /\ \A k \in 1..Len(profiles) :
                CountFor(out', "matcher = null", profiles[k].id) = 1
          /\ \A c \in 1..NumContexts : CountFor(out', "select", c) = 1
          /\ Len(out') = Len(profiles) + NumContexts
          /\ \A i, j \in 1..Len(out') :
                (out'[i].ev = "matcher = null" /\ out'[j].ev = "select") => i < j
          /\ profiles' = profiles]_vars

\* C19 witness: a route update has just cleared the matchers of three
\* profiles and reselected on both contexts.
C19_Witness ==
    /\ call = "updateRoutes"
    /\ Len(profiles) = 3
    /\ Count(out, "matcher = null") = 3
    /\ Count(out, "select") = NumContexts

\* The events that announce a change of the profile list, and the four
\* local operations that emit them.
Announcements ==
    {":profile-created", ":profile-changed", ":profile-deleted",
     ":profiles-reordered"}

LocalOperations == {"createProfile", "deleteProfile", "moveProfile", "saveProfile"}

\* C20: when :profile-created, :profile-changed, :profile-deleted or
\* :profiles-reordered is emitted, selectProfiles() has already run on every
\* context, the in-memory list and id map already show the change, and for
\* createProfile, deleteProfile, moveProfile and saveProfile the list has
\* already been written to the provider's 'profiles' key.
C20_EventsFollowState ==
    [][\A i \in 1..Len(out') :
          out'[i].ev \in Announcements
          => /\ \A c \in 1..NumContexts :
                   \E j \in 1..(i - 1) : out'[j] = Ev("select", c)
             /\ \A j \in (i + 1)..Len(out') : out'[j].ev \in Announcements
             /\ call' \in LocalOperations
                => /\ \E j \in 1..(i - 1) : out'[j].ev = "set-profiles"
                   /\ provider'[ProfilesKey] = ListValue(profiles')
             /\ out'[i].ev \in {":profile-created", ":profile-changed"}
                => /\ Truthy(profile_ids'[out'[i].id])
                   /\ profile_ids'[out'[i].id] \in Range(profiles')
             /\ out'[i].ev = ":profile-deleted"
                => /\ ~Truthy(profile_ids'[out'[i].id])
                   /\ out'[i].id \notin IdsOf(profiles')]_vars

\* C20 witness: saveProfile has just written the list, run selectProfiles()
\* on both contexts and then emitted :profile-changed for profile 1.
C20_Witness ==
    /\ call = "saveProfile"
    /\ Len(out) = NumContexts + 2
    /\ out[1].ev = "set-profiles"
    /\ out[Len(out)] = Ev(":profile-changed", 1)
    /\ provider[ProfilesKey] = ListValue(profiles)

\* C21: once the profiles are loaded, whenever the provider holds a
\* 'profiles' value it is the data of the in-memory profiles in their order;
\* and the echo of the manager's own write, a 'profiles' notification that
\* carries what createProfile, deleteProfile, moveProfile or saveProfile has
\* just saved, emits nothing, runs no selectProfiles() and replaces no
\* instance.
C21_PersistedListIsMemoryList ==
    [][/\ (enabled' /\ provider'[ProfilesKey].has)
          => provider'[ProfilesKey].list = profiles'
       /\ (/\ call \in LocalOperations
           /\ Count(out, "set-profiles") = 1
           /\ providerChanged(ProfilesKey, provider[ProfilesKey], FALSE))
          => LoadWasNoOp]_vars

\* C21 witness: the echo of a write of three profiles has just been handled
\* without an effect, and the stored list is the in-memory list.
C21_Witness ==
    /\ enabled
    /\ call = "_onProviderChange"
    /\ out = <<>>
    /\ Len(profiles) = 3
    /\ provider[ProfilesKey] = ListValue(profiles)
    /\ profiles[1].name = Unnamed(2)

\* C22: the ids of the profiles in the list are pairwise distinct,
\* profile(id) returns the listed instance for exactly the ids in the list,
\* and null for every other id.
C22_IdMapIsProfileList ==
    /\ \A i, j \in 1..Len(profiles) : i # j => profiles[i].id # profiles[j].id
    /\ \A k \in 1..Len(profiles) : profile(profiles[k].id) = profiles[k]
    /\ \A id \in Ids : id \notin IdsOf(profiles) => ~Truthy(profile(id))

\* C22 witness: profile 1 has just been deleted from a list of three: ids 0
\* and 2 are listed and mapped, id 1 is neither.
C22_Witness ==
    /\ enabled
    /\ IdsOf(profiles) = {0, 2}
    /\ Truthy(profile(0)) /\ Truthy(profile(2))
    /\ ~Truthy(profile(1))
    /\ call = "deleteProfile"
    /\ Count(out, ":profile-deleted") = 1

\* C23: createProfile() puts the new profile at index 0 of the list, ahead
\* of every profile the list held, the default profile included; the
\* profiles the list held follow in their order, each the same instance with
\* the same data and listeners; and the persisted 'profiles' list is the new
\* list, the new profile's data first.
C23_CreateInsertsFirst ==
    [][call' = "createProfile"
       => /\ Len(profiles') = Len(profiles) + 1
          /\ profiles'[1].id \notin IdsOf(profiles)
          /\ SubSeq(profiles', 2, Len(profiles')) = profiles
          /\ \A k \in 1..Len(profiles) :
                /\ profile_ids'[profiles[k].id] = profile_ids[profiles[k].id]
                /\ listeners'[profiles[k].id] = listeners[profiles[k].id]
          /\ Count(out', "new") = 1
          /\ CountFor(out', "new", profiles'[1].id) = 1
          /\ provider'[ProfilesKey].has
          /\ provider'[ProfilesKey].list = profiles'
          /\ provider'[ProfilesKey].list[1] = profiles'[1]]_vars

\* C23 witness: a profile has just been created ahead of Moderation and
\* Default, and the stored list has it first.
C23_Witness ==
    /\ call = "createProfile"
    /\ Len(profiles) = 3
    /\ profiles[1].id = 2
    /\ profiles[2] = Moderation
    /\ profiles[3] = Default
    /\ provider[ProfilesKey].list[1] = profiles[1]

\* C24: over all the runs of Switchboard.onEnable, retries included, the
\* loader of at most one route is invoked; that route has a component and a
\* path that compiles and does not match the location; the loader's
\* invocation, whether it returns or throws, is the last thing the run does
\* with a route and no retry follows it; and a run that finds web_munch with
\* its require, or with v4 === false, instantiates nothing and invokes no
\* loader.
C24_AtMostOneChunkLoad ==
    [][call' = "Switchboard.onEnable"
       => /\ Len(switchboard'.loaded) <= 1
          /\ \A k \in 1..Len(switchboard'.loaded) :
                LET l == switchboard'.loaded[k]
                IN  /\ l.route.component # "none"
                    /\ Compiles(l.route.path)
                    /\ ~Matches(l.route.path, l.location)
          /\ \A i \in 1..Len(out') : out'[i].ev = "loader" => i = Len(out')
          /\ Count(out', "loader") = Len(switchboard'.loaded)
                                     - Len(switchboard.loaded)
          /\ switchboard'.loaded # <<>> => switchboard'.pc = "done"
          /\ (switchboard.require \/ switchboard.v4 = "false")
             => /\ out' = <<>>
                /\ switchboard'.loaded = switchboard.loaded
                /\ switchboard'.pc = "done"]_vars

\* C24 witness: after two runs that found no Switch, a run has instantiated
\* the component of the first route, which has no loader, and invoked the
\* loader of the second, which threw.
C24_Witness ==
    /\ call = "Switchboard.onEnable"
    /\ switchboard.retries = 2
    /\ Len(switchboard.loaded) = 1
    /\ switchboard.loaded[1].route.component = "loader throws"
    /\ out = <<Ev("new component", 1), Ev("new component", 2), Ev("loader", 2)>>

\* C24 witness of the early return: web_munch has its require and the run
\* has ended without a loader.
C24_WitnessRequire ==
    /\ call = "Switchboard.onEnable"
    /\ switchboard.require
    /\ switchboard.pc = "done"
    /\ switchboard.loaded = <<>>

====
